---- MODULE Spec2Model ----
(***************************************************************************)
(* Model of src/src/entities/trade.ts of the Uniswap SDK: the trade        *)
(* comparators, the slippage bounds of a Trade, and the depth-first search *)
(* of Trade.bestTradeExactIn / Trade.bestTradeExactOut.                    *)
(*                                                                         *)
(* The recursive search is unfolded into an explicit call stack: one frame *)
(* per active invocation, one step per iteration of its for-loop.  Pair,   *)
(* Route, Fraction and sortedInsert live outside trade.ts; they are        *)
(* modelled from their documented behaviour.                               *)
(***************************************************************************)
EXTENDS Integers, Sequences, FiniteSets, TLC

VARIABLES
    pairs,          \* the caller's Pair[] (a sequence of pair snapshots)
    fn,             \* which entry point was called: "exactIn" or "exactOut"
    amount,         \* raw value of the fixed amount (amountIn resp. amountOut)
    maxNumResults,  \* options.maxNumResults
    maxHops,        \* options.maxHops
    stack,          \* the active invocations, outermost first
    bestTrades,     \* the accumulator threaded through the recursion
    status,         \* "running", "returned", "thrown" (search); "idle" otherwise
    cmp,            \* comparator harness: the trades compared and the results
    calls           \* slippage harness: the trade and the last calls made on it

vars == <<pairs, fn, amount, maxNumResults, maxHops, stack, bestTrades, status, cmp, calls>>

(***************************************************************************)
(* Bounds of the model and defaults of the program                         *)
(***************************************************************************)
MaxPairs == 3
MaxAmount == 3
MaxRank == 2          \* amounts of the trades handed to the comparator: 1..MaxRank
MaxRaw == 3           \* amounts of the trade whose slippage bounds are asked: 0..MaxRaw
MaxTolerance == 2     \* tolerances n/d with n in -1..MaxTolerance, d in 1..MaxTolerance
DefaultMaxNumResults == 3
DefaultMaxHops == 3

\* The query goes from TokenIn to TokenOut; Mid is a third asset.  The token
\* pairs are listed in canonical (token0 < token1) order.
TokenIn == "A"
Mid == "B"
TokenOut == "D"
TokenPairs == {<<TokenIn, Mid>>, <<TokenIn, TokenOut>>, <<Mid, TokenOut>>}

\* Reserve snapshots (reserve0, reserve1) of a funded pair: a skewed and a
\* balanced pool.
ReserveProfiles == {<<1, 3>>, <<3, 3>>}

\* A pair with one side drained.
DrainedPairs == {[token0 |-> TokenIn, token1 |-> TokenOut, reserve0 |-> 0, reserve1 |-> 3]}

PairUniverse ==
    {[token0 |-> tp[1], token1 |-> tp[2], reserve0 |-> rp[1], reserve1 |-> rp[2]] :
        tp \in TokenPairs, rp \in ReserveProfiles} \cup DrainedPairs

PairLists == UNION {[1..n -> PairUniverse] : n \in 1..MaxPairs}

(***************************************************************************)
(* Sequence helpers                                                        *)
(***************************************************************************)
Range(s) == {s[k] : k \in DOMAIN s}

Last(s) == s[Len(s)]

RECURSIVE Product(_)
Product(s) == IF s = <<>> THEN 1 ELSE Head(s) * Product(Tail(s))

(***************************************************************************)
(* Fraction: comparisons by cross-multiplication, quotient by truncation   *)
(***************************************************************************)
Frac(n, d) == [num |-> n, den |-> d]

FracLessThan(a, b) == a.num * b.den < b.num * a.den

FracGreaterThan(a, b) == a.num * b.den > b.num * a.den

FracEqualTo(a, b) == a.num * b.den = b.num * a.den

FracAdd(a, b) ==
    IF a.den = b.den THEN Frac(a.num + b.num, a.den)
    ELSE Frac(a.num * b.den + b.num * a.den, a.den * b.den)

FracSubtract(a, b) ==
    IF a.den = b.den THEN Frac(a.num - b.num, a.den)
    ELSE Frac(a.num * b.den - b.num * a.den, a.den * b.den)

FracMultiply(a, b) == Frac(a.num * b.num, a.den * b.den)

FracDivide(a, b) == Frac(a.num * b.den, a.den * b.num)

FracInvert(a) == Frac(a.den, a.num)

\* integer division truncating toward zero
TruncDiv(n, d) ==
    LET an == IF n < 0 THEN -n ELSE n
        ad == IF d < 0 THEN -d ELSE d
        q == an \div ad
    IN IF (n < 0) = (d < 0) THEN q ELSE -q

FracQuotient(a) == TruncDiv(a.num, a.den)

(***************************************************************************)
(* Pair: constant-product swap with the 0.3% fee                           *)
(***************************************************************************)
InvolvesToken(p, t) == p.token0 = t \/ p.token1 = t

ReserveOf(p, t) == IF t = p.token0 THEN p.reserve0 ELSE p.reserve1

OtherToken(p, t) == IF t = p.token0 THEN p.token1 ELSE p.token0

Swapped(e, t, r) == [err |-> e, token |-> t, raw |-> r]

getOutputAmount(p, inputAmount) ==
    IF p.reserve0 = 0 \/ p.reserve1 = 0
    THEN Swapped("InsufficientReserves", inputAmount.token, 0)
    ELSE LET inputReserve == ReserveOf(p, inputAmount.token)
             outputToken == OtherToken(p, inputAmount.token)
             outputReserve == ReserveOf(p, outputToken)
             inputAmountWithFee == inputAmount.raw * 997
             numerator == inputAmountWithFee * outputReserve
             denominator == inputReserve * 1000 + inputAmountWithFee
             out == numerator \div denominator
         IN IF out = 0
            THEN Swapped("InsufficientInputAmount", outputToken, 0)
            ELSE Swapped("none", outputToken, out)

getInputAmount(p, outputAmount) ==
    IF \/ p.reserve0 = 0
       \/ p.reserve1 = 0
       \/ outputAmount.raw >= ReserveOf(p, outputAmount.token)
    THEN Swapped("InsufficientReserves", outputAmount.token, 0)
    ELSE LET outputReserve == ReserveOf(p, outputAmount.token)
             inputToken == OtherToken(p, outputAmount.token)
             inputReserve == ReserveOf(p, inputToken)
             numerator == inputReserve * outputAmount.raw * 1000
             denominator == (outputReserve - outputAmount.raw) * 997
         IN Swapped("none", inputToken, (numerator \div denominator) + 1)

(***************************************************************************)
(* Route: a chain of pairs (indices into the caller's list) from an input  *)
(***************************************************************************)
RECURSIVE RoutePath(_, _)
RoutePath(route, input) ==
    IF route = <<>> THEN <<input>>
    ELSE <<input>> \o RoutePath(Tail(route), OtherToken(pairs[Head(route)], input))

RouteValid(route, input) ==
    /\ Len(route) > 0
    /\ \A k \in 1..Len(route) : InvolvesToken(pairs[route[k]], RoutePath(route, input)[k])

\* product of the per-hop reserve ratios (quote reserve over base reserve)
RouteMidPrice(route, input) ==
    LET path == RoutePath(route, input)
    IN Frac(Product([k \in 1..Len(route) |-> ReserveOf(pairs[route[k]], path[k + 1])]),
            Product([k \in 1..Len(route) |-> ReserveOf(pairs[route[k]], path[k])]))

(***************************************************************************)
(* Trade                                                                   *)
(***************************************************************************)
computePriceImpact(midPrice, inputRaw, outputRaw) ==
    LET exactQuote == FracMultiply(midPrice, Frac(inputRaw, 1))
        slippage == FracDivide(FracSubtract(exactQuote, Frac(outputRaw, 1)), exactQuote)
    IN Frac(slippage.num, slippage.den)

\* amounts[1..] of an EXACT_INPUT trade, hop by hop; <<>> when a hop fails
RECURSIVE ExactInputAmounts(_, _, _)
ExactInputAmounts(route, path, amounts) ==
    LET i == Len(amounts)
    IN IF i > Len(route) THEN amounts
       ELSE LET r == getOutputAmount(pairs[route[i]], [token |-> path[i], raw |-> amounts[i]])
            IN IF r.err # "none" THEN <<>>
               ELSE ExactInputAmounts(route, path, Append(amounts, r.raw))

\* amounts of an EXACT_OUTPUT trade, from the last hop back to the first
RECURSIVE ExactOutputAmounts(_, _, _)
ExactOutputAmounts(route, path, amounts) ==
    LET i == Len(path) - Len(amounts) + 1    \* position in path of Head(amounts)
    IN IF i = 1 THEN amounts
       ELSE LET r == getInputAmount(pairs[route[i - 1]], [token |-> path[i], raw |-> Head(amounts)])
            IN IF r.err # "none" THEN <<>>
               ELSE ExactOutputAmounts(route, path, <<r.raw>> \o amounts)

NoTrade == [ok |-> FALSE]

NewTrade(route, input, amountRaw, tradeType) ==
    IF ~RouteValid(route, input) THEN NoTrade
    ELSE LET path == RoutePath(route, input)
             amounts == IF tradeType = "EXACT_INPUT"
                        THEN ExactInputAmounts(route, path, <<amountRaw>>)
                        ELSE ExactOutputAmounts(route, path, <<amountRaw>>)
         IN IF amounts = <<>> THEN NoTrade
            ELSE [ok |-> TRUE,
                  route |-> route,
                  path |-> path,
                  tradeType |-> tradeType,
                  inputAmount |-> amounts[1],
                  outputAmount |-> Last(amounts),
                  priceImpact |-> computePriceImpact(RouteMidPrice(route, input),
                                                     amounts[1], Last(amounts))]

\* the outcome of a call that returns an amount or fails an invariant
Returned(raw) == [ok |-> TRUE, raw |-> raw, error |-> "none"]

Failed(message) == [ok |-> FALSE, raw |-> 0, error |-> message]

\* minimumAmountOut scaling the output up instead of down
minimumAmountOutScaledUp(trade, slippageTolerance) ==
    IF FracLessThan(slippageTolerance, Frac(0, 1)) THEN Failed("SLIPPAGE_TOLERANCE")
    ELSE IF trade.tradeType = "EXACT_OUTPUT" THEN Returned(trade.outputAmount)
    ELSE Returned(FracQuotient(FracMultiply(FracAdd(Frac(1, 1), slippageTolerance),
                                            Frac(trade.outputAmount, 1))))

minimumAmountOut(trade, slippageTolerance) ==
    IF FracLessThan(slippageTolerance, Frac(0, 1)) THEN Failed("SLIPPAGE_TOLERANCE")
    ELSE IF trade.tradeType = "EXACT_OUTPUT" THEN Returned(trade.outputAmount)
    ELSE Returned(FracQuotient(FracMultiply(FracInvert(FracAdd(Frac(1, 1), slippageTolerance)),
                                            Frac(trade.outputAmount, 1))))

\* maximumAmountIn scaling the input down instead of up
maximumAmountInScaledDown(trade, slippageTolerance) ==
    IF FracLessThan(slippageTolerance, Frac(0, 1)) THEN Failed("SLIPPAGE_TOLERANCE")
    ELSE IF trade.tradeType = "EXACT_INPUT" THEN Returned(trade.inputAmount)
    ELSE Returned(FracQuotient(FracMultiply(FracInvert(FracAdd(Frac(1, 1), slippageTolerance)),
                                            Frac(trade.inputAmount, 1))))

maximumAmountIn(trade, slippageTolerance) ==
    IF FracLessThan(slippageTolerance, Frac(0, 1)) THEN Failed("SLIPPAGE_TOLERANCE")
    ELSE IF trade.tradeType = "EXACT_INPUT" THEN Returned(trade.inputAmount)
    ELSE Returned(FracQuotient(FracMultiply(FracAdd(Frac(1, 1), slippageTolerance),
                                            Frac(trade.inputAmount, 1))))

(***************************************************************************)
(* Comparators                                                             *)
(***************************************************************************)
\* inputOutputComparator ranking the smaller output first
inputOutputComparatorLeastOutput(a, b) ==
    IF a.outputAmount = b.outputAmount
    THEN IF a.inputAmount = b.inputAmount THEN 0
         ELSE IF a.inputAmount < b.inputAmount THEN -1 ELSE 1
    ELSE IF a.outputAmount < b.outputAmount THEN -1 ELSE 1

inputOutputComparator(a, b) ==
    IF a.outputAmount = b.outputAmount
    THEN IF a.inputAmount = b.inputAmount THEN 0
         ELSE IF a.inputAmount < b.inputAmount THEN -1 ELSE 1
    ELSE IF a.outputAmount < b.outputAmount THEN 1 ELSE -1

\* tradeComparator without the final tie-break on the number of hops
tradeComparatorIgnoringHops(a, b) ==
    LET ioComp == inputOutputComparator(a, b)
    IN IF ioComp # 0 THEN ioComp
       ELSE IF FracLessThan(a.priceImpact, b.priceImpact) THEN -1
       ELSE IF FracGreaterThan(a.priceImpact, b.priceImpact) THEN 1
       ELSE 0

tradeComparator(a, b) ==
    LET ioComp == inputOutputComparator(a, b)
    IN IF ioComp # 0 THEN ioComp
       ELSE IF FracLessThan(a.priceImpact, b.priceImpact) THEN -1
       ELSE IF FracGreaterThan(a.priceImpact, b.priceImpact) THEN 1
       ELSE Len(a.path) - Len(b.path)

(***************************************************************************)
(* sortedInsert: bounded insertion into a list kept sorted by comparator   *)
(***************************************************************************)
RECURSIVE InsertionPoint(_, _, _, _)
InsertionPoint(items, add, lo, hi) ==
    IF lo >= hi THEN lo
    ELSE LET mid == (lo + hi) \div 2
         IN IF tradeComparator(items[mid + 1], add) <= 0
            THEN InsertionPoint(items, add, mid + 1, hi)
            ELSE InsertionPoint(items, add, lo, mid)

sortedInsert(items, add, maxSize) ==
    IF Len(items) = 0 THEN <<add>>
    ELSE LET isFull == Len(items) = maxSize
         IN IF isFull /\ tradeComparator(Last(items), add) <= 0 THEN items
            ELSE LET lo == InsertionPoint(items, add, 0, Len(items))
                     spliced == SubSeq(items, 1, lo) \o <<add>> \o SubSeq(items, lo + 1, Len(items))
                 IN IF isFull THEN SubSeq(spliced, 1, Len(spliced) - 1) ELSE spliced

(***************************************************************************)
(* The search: Trade.bestTradeExactIn and Trade.bestTradeExactOut          *)
(***************************************************************************)
\* One invocation: its pairs argument (as indices into the caller's list),
\* the loop index i, the running amount, currentPairs and its hop budget.
Frame(ps, amt, cur, hops) ==
    [pairs |-> ps, i |-> 1, amount |-> amt, currentPairs |-> cur, maxHops |-> hops]

Top == stack[Len(stack)]

TopIndex == Top.pairs[Top.i]

TopPair == pairs[TopIndex]

InLoop == status = "running" /\ Top.i <= Len(Top.pairs)

\* `continue`, or the end of the loop body: the innermost loop moves on
Continue == [stack EXCEPT ![Len(stack)].i = @ + 1]

\* the slice that starts at i instead of i + 1: the traversed pair stays in
pairsIncludingThisPair(ps, i) == SubSeq(ps, 1, i - 1) \o SubSeq(ps, i, Len(ps))

\* pairs.slice(0, i).concat(pairs.slice(i + 1, pairs.length)), i zero-based
pairsExcludingThisPair(ps, i) == SubSeq(ps, 1, i - 1) \o SubSeq(ps, i + 1, Len(ps))

\* the two filters at the head of the loop body
Irrelevant(pair, token) == pair.token0 # token /\ pair.token1 # token

Drained(pair) == pair.reserve0 = 0 \/ pair.reserve1 = 0

\* the catch clauses: which failures of the swap are swallowed
CaughtExactIn(err) == err = "InsufficientInputAmount"

\* the catch clause of bestTradeExactIn pasted into bestTradeExactOut
CaughtExactOutAsExactIn(err) == err = "InsufficientInputAmount"

CaughtExactOut(err) == err = "InsufficientReserves"

\* the trade materialised when the path reaches the far end
TradeExactIn(f, idx) == NewTrade(Append(f.currentPairs, idx), TokenIn, amount, "EXACT_INPUT")

TradeExactOut(f, idx) == NewTrade(<<idx>> \o f.currentPairs, TokenIn, amount, "EXACT_OUTPUT")

\* an insertion whose cap is off by one
InsertExactInOffByOne(trades, trade) == sortedInsert(trades, trade, maxNumResults + 1)

InsertExactIn(trades, trade) == sortedInsert(trades, trade, maxNumResults)

InsertExactOut(trades, trade) == sortedInsert(trades, trade, maxNumResults)

\* guards of the recursive call that spend one hop too many, or too few
MayRecurseOneMore(f) == f.maxHops > 0 /\ Len(f.pairs) > 1

MayRecurseOneLess(f) == f.maxHops > 2 /\ Len(f.pairs) > 1

\* the guard of the recursive call
MayRecurse(f) == f.maxHops > 1 /\ Len(f.pairs) > 1

Params == <<pairs, fn, amount, maxNumResults, maxHops, cmp, calls>>

---------------------------------------------------------------------------
\* bestTradeExactIn, lines 201-202: the pair is irrelevant or drained
ExactInSkip ==
    /\ fn = "exactIn" /\ InLoop
    /\ Irrelevant(TopPair, Top.amount.token) \/ Drained(TopPair)
    /\ stack' = Continue
    /\ UNCHANGED <<Params, bestTrades, status>>

\* lines 205-213: getOutputAmount throws
ExactInSwapFails ==
    /\ fn = "exactIn" /\ InLoop
    /\ ~Irrelevant(TopPair, Top.amount.token) /\ ~Drained(TopPair)
    /\ LET r == getOutputAmount(TopPair, Top.amount)
       IN /\ r.err # "none"
          /\ IF CaughtExactIn(r.err)
             THEN stack' = Continue /\ status' = status
             ELSE stack' = stack /\ status' = "thrown"
    /\ UNCHANGED <<Params, bestTrades>>

\* lines 215-225: the output token is reached
ExactInInsert ==
    /\ fn = "exactIn" /\ InLoop
    /\ ~Irrelevant(TopPair, Top.amount.token) /\ ~Drained(TopPair)
    /\ LET r == getOutputAmount(TopPair, Top.amount)
           trade == TradeExactIn(Top, TopIndex)
       IN /\ r.err = "none"
          /\ r.token = TokenOut
          /\ IF trade.ok
             THEN /\ bestTrades' = InsertExactIn(bestTrades, trade)
                  /\ stack' = Continue
                  /\ status' = status
             ELSE /\ status' = "thrown"
                  /\ UNCHANGED <<bestTrades, stack>>
    /\ UNCHANGED Params

\* lines 226-241: recurse on the other pairs from the token reached
ExactInRecurse ==
    /\ fn = "exactIn" /\ InLoop
    /\ ~Irrelevant(TopPair, Top.amount.token) /\ ~Drained(TopPair)
    /\ LET r == getOutputAmount(TopPair, Top.amount)
       IN /\ r.err = "none"
          /\ r.token # TokenOut
          /\ MayRecurse(Top)
          /\ stack' = Append(stack, Frame(pairsExcludingThisPair(Top.pairs, Top.i),
                                          [token |-> r.token, raw |-> r.raw],
                                          Append(Top.currentPairs, TopIndex),
                                          Top.maxHops - 1))
    /\ UNCHANGED <<Params, bestTrades, status>>

\* line 226 false: neither the output token nor budget to go on
ExactInDeadEnd ==
    /\ fn = "exactIn" /\ InLoop
    /\ ~Irrelevant(TopPair, Top.amount.token) /\ ~Drained(TopPair)
    /\ LET r == getOutputAmount(TopPair, Top.amount)
       IN /\ r.err = "none"
          /\ r.token # TokenOut
          /\ ~MayRecurse(Top)
    /\ stack' = Continue
    /\ UNCHANGED <<Params, bestTrades, status>>

\* line 245: the loop is over; the caller's loop body ends with the call
ExactInReturn ==
    /\ fn = "exactIn" /\ status = "running"
    /\ Top.i > Len(Top.pairs)
    /\ IF Len(stack) = 1
       THEN stack' = stack /\ status' = "returned"
       ELSE /\ stack' = [SubSeq(stack, 1, Len(stack) - 1) EXCEPT ![Len(stack) - 1].i = @ + 1]
            /\ status' = status
    /\ UNCHANGED <<Params, bestTrades>>

---------------------------------------------------------------------------
\* bestTradeExactOut, lines 270-271
ExactOutSkip ==
    /\ fn = "exactOut" /\ InLoop
    /\ Irrelevant(TopPair, Top.amount.token) \/ Drained(TopPair)
    /\ stack' = Continue
    /\ UNCHANGED <<Params, bestTrades, status>>

\* lines 274-282: getInputAmount throws
ExactOutSwapFails ==
    /\ fn = "exactOut" /\ InLoop
    /\ ~Irrelevant(TopPair, Top.amount.token) /\ ~Drained(TopPair)
    /\ LET r == getInputAmount(TopPair, Top.amount)
       IN /\ r.err # "none"
          /\ IF CaughtExactOut(r.err)
             THEN stack' = Continue /\ status' = status
             ELSE stack' = stack /\ status' = "thrown"
    /\ UNCHANGED <<Params, bestTrades>>

\* lines 284-290: the input token is reached
ExactOutInsert ==
    /\ fn = "exactOut" /\ InLoop
    /\ ~Irrelevant(TopPair, Top.amount.token) /\ ~Drained(TopPair)
    /\ LET r == getInputAmount(TopPair, Top.amount)
           trade == TradeExactOut(Top, TopIndex)
       IN /\ r.err = "none"
          /\ r.token = TokenIn
          /\ IF trade.ok
             THEN /\ bestTrades' = InsertExactOut(bestTrades, trade)
                  /\ stack' = Continue
                  /\ status' = status
             ELSE /\ status' = "thrown"
                  /\ UNCHANGED <<bestTrades, stack>>
    /\ UNCHANGED Params

\* lines 291-306
ExactOutRecurse ==
    /\ fn = "exactOut" /\ InLoop
    /\ ~Irrelevant(TopPair, Top.amount.token) /\ ~Drained(TopPair)
    /\ LET r == getInputAmount(TopPair, Top.amount)
       IN /\ r.err = "none"
          /\ r.token # TokenIn
          /\ MayRecurse(Top)
          /\ stack' = Append(stack, Frame(pairsExcludingThisPair(Top.pairs, Top.i),
                                          [token |-> r.token, raw |-> r.raw],
                                          <<TopIndex>> \o Top.currentPairs,
                                          Top.maxHops - 1))
    /\ UNCHANGED <<Params, bestTrades, status>>

\* line 291 false
ExactOutDeadEnd ==
    /\ fn = "exactOut" /\ InLoop
    /\ ~Irrelevant(TopPair, Top.amount.token) /\ ~Drained(TopPair)
    /\ LET r == getInputAmount(TopPair, Top.amount)
       IN /\ r.err = "none"
          /\ r.token # TokenIn
          /\ ~MayRecurse(Top)
    /\ stack' = Continue
    /\ UNCHANGED <<Params, bestTrades, status>>

\* line 310
ExactOutReturn ==
    /\ fn = "exactOut" /\ status = "running"
    /\ Top.i > Len(Top.pairs)
    /\ IF Len(stack) = 1
       THEN stack' = stack /\ status' = "returned"
       ELSE /\ stack' = [SubSeq(stack, 1, Len(stack) - 1) EXCEPT ![Len(stack) - 1].i = @ + 1]
            /\ status' = status
    /\ UNCHANGED <<Params, bestTrades>>

---------------------------------------------------------------------------
\* A call of either entry point with default recursion parameters.
Init ==
    /\ pairs \in PairLists
    /\ fn \in {"exactIn", "exactOut"}
    /\ amount \in 1..MaxAmount
    /\ maxNumResults \in 1..DefaultMaxNumResults
    /\ maxHops \in 1..DefaultMaxHops
    /\ stack = <<Frame([k \in 1..Len(pairs) |-> k],
                       [token |-> IF fn = "exactIn" THEN TokenIn ELSE TokenOut, raw |-> amount],
                       <<>>, maxHops)>>
    /\ bestTrades = <<>>
    /\ status = "running"
    /\ cmp = <<>>
    /\ calls = <<>>

Next ==
    \/ ExactInSkip
    \/ ExactInSwapFails
    \/ ExactInInsert
    \/ ExactInRecurse
    \/ ExactInDeadEnd
    \/ ExactInReturn
    \/ ExactOutSkip
    \/ ExactOutSwapFails
    \/ ExactOutInsert
    \/ ExactOutRecurse
    \/ ExactOutDeadEnd
    \/ ExactOutReturn

Spec == Init /\ [][Next]_vars

(***************************************************************************)
(* Comparator harness: three trades over the same input and output asset   *)
(* are compared with each other.                                           *)
(***************************************************************************)
\* price impacts, among them two representations of one half
ImpactSamples == {Frac(1, 4), Frac(1, 2), Frac(2, 4), Frac(1, 1)}

PathSamples == {<<TokenIn, TokenOut>>, <<TokenIn, Mid, TokenOut>>}

TradeSamples ==
    {[ok |-> TRUE, path |-> pa, inputAmount |-> ia, outputAmount |-> oa, priceImpact |-> pi] :
        pa \in PathSamples, ia \in 1..MaxRank, oa \in 1..MaxRank, pi \in ImpactSamples}

Idle ==
    /\ pairs = <<>>
    /\ fn = "none"
    /\ amount = 0
    /\ maxNumResults = 0
    /\ maxHops = 0
    /\ stack = <<>>
    /\ bestTrades = <<>>
    /\ status = "idle"

SearchVars == <<pairs, fn, amount, maxNumResults, maxHops, stack, bestTrades, status>>

InitCompare ==
    /\ Idle
    /\ calls = <<>>
    /\ cmp \in {[a |-> x, b |-> y, c |-> z, done |-> FALSE, r |-> <<>>] :
                    x \in TradeSamples, y \in TradeSamples, z \in TradeSamples}

\* r = <<cmp(a,a), cmp(a,b), cmp(b,a), cmp(b,c), cmp(a,c)>>
Compare ==
    /\ status = "idle" /\ cmp # <<>> /\ ~cmp.done
    /\ cmp' = [cmp EXCEPT !.done = TRUE,
                          !.r = <<tradeComparator(cmp.a, cmp.a),
                                  tradeComparator(cmp.a, cmp.b),
                                  tradeComparator(cmp.b, cmp.a),
                                  tradeComparator(cmp.b, cmp.c),
                                  tradeComparator(cmp.a, cmp.c)>>]
    /\ UNCHANGED <<SearchVars, calls>>

NextCompare == Compare

SpecCompare == InitCompare /\ [][NextCompare]_vars

(***************************************************************************)
(* Slippage harness: minimumAmountOut and maximumAmountIn are called on    *)
(* one trade; the last two calls are remembered.                           *)
(***************************************************************************)
Tolerances == {Frac(n, d) : n \in -1..MaxTolerance, d \in 1..MaxTolerance}

QuotedTrades ==
    {[ok |-> TRUE, tradeType |-> tt, inputAmount |-> ia, outputAmount |-> oa] :
        tt \in {"EXACT_INPUT", "EXACT_OUTPUT"}, ia \in 0..MaxRaw, oa \in 0..MaxRaw}

InitSlippage ==
    /\ Idle
    /\ cmp = <<>>
    /\ calls \in {[trade |-> t, log |-> <<>>] : t \in QuotedTrades}

Remember(log, entry) == IF log = <<>> THEN <<entry>> ELSE <<Last(log), entry>>

CallMinimumAmountOut ==
    /\ status = "idle" /\ calls # <<>>
    /\ \E t \in Tolerances :
          calls' = [calls EXCEPT !.log = Remember(@, [method |-> "minimumAmountOut", tolerance |-> t,
                                                      result |-> minimumAmountOut(calls.trade, t)])]
    /\ UNCHANGED <<SearchVars, cmp>>

CallMaximumAmountIn ==
    /\ status = "idle" /\ calls # <<>>
    /\ \E t \in Tolerances :
          calls' = [calls EXCEPT !.log = Remember(@, [method |-> "maximumAmountIn", tolerance |-> t,
                                                      result |-> maximumAmountIn(calls.trade, t)])]
    /\ UNCHANGED <<SearchVars, cmp>>

NextSlippage == CallMinimumAmountOut \/ CallMaximumAmountIn

SpecSlippage == InitSlippage /\ [][NextSlippage]_vars

(***************************************************************************)
(* Properties                                                              *)
(***************************************************************************)
Sign(x) == IF x < 0 THEN -1 ELSE IF x > 0 THEN 1 ELSE 0

\* The documented ranking, spelled out on the trades' fields: -1 when a ranks
\* before b, 1 when after, 0 when they tie.  Price impacts are compared as
\* rationals (their denominators are positive).
ImpactOrder(a, b) ==
    LET l == a.priceImpact.num * b.priceImpact.den
        r == b.priceImpact.num * a.priceImpact.den
    IN IF l < r THEN -1 ELSE IF l > r THEN 1 ELSE 0

DocumentedOrder(a, b) ==
    IF a.outputAmount # b.outputAmount THEN (IF a.outputAmount > b.outputAmount THEN -1 ELSE 1)
    ELSE IF a.inputAmount # b.inputAmount THEN (IF a.inputAmount < b.inputAmount THEN -1 ELSE 1)
    ELSE IF ImpactOrder(a, b) # 0 THEN ImpactOrder(a, b)
    ELSE IF Len(a.path) # Len(b.path) THEN (IF Len(a.path) < Len(b.path) THEN -1 ELSE 1)
    ELSE 0

Hops(t) == Len(t.path) - 1

Compared == status = "idle" /\ cmp # <<>> /\ cmp.done

\* C5: tradeComparator is a total preorder on trades sharing input and output
\* asset: tradeComparator(a, a) = 0; it is 0 whenever a and b agree on output
\* amount, input amount, price impact and hop count; the sign flips when the
\* arguments are swapped; a <= b and b <= c imply a <= c; and the order is the
\* lexicographic one: more output, then less input, then lower price impact,
\* then fewer hops.
C5_TotalPreorder ==
    Compared =>
        /\ cmp.r[1] = 0
        /\ ( /\ cmp.a.outputAmount = cmp.b.outputAmount
             /\ cmp.a.inputAmount = cmp.b.inputAmount
             /\ ImpactOrder(cmp.a, cmp.b) = 0
             /\ Hops(cmp.a) = Hops(cmp.b) ) => cmp.r[2] = 0
        /\ Sign(cmp.r[2]) = -Sign(cmp.r[3])
        /\ (cmp.r[2] <= 0 /\ cmp.r[4] <= 0) => cmp.r[5] <= 0
        /\ Sign(cmp.r[2]) = DocumentedOrder(cmp.a, cmp.b)

\* a before b only by hop count (equal price impacts written differently),
\* b before c, and so a before c
C5_Witness ==
    /\ Compared
    /\ cmp.a.priceImpact # cmp.b.priceImpact
    /\ ImpactOrder(cmp.a, cmp.b) = 0
    /\ cmp.a.outputAmount = cmp.b.outputAmount
    /\ cmp.a.inputAmount = cmp.b.inputAmount
    /\ cmp.r[2] < 0 /\ cmp.r[3] > 0
    /\ cmp.r[4] < 0
    /\ cmp.r[5] < 0

Quoted == status = "idle" /\ calls # <<>>

LogOf(method) == {e \in Range(calls.log) : e.method = method}

Negative(t) == t.num < 0

\* t1 <= t2 as rationals
AtMost(t1, t2) == t1.num * t2.den <= t2.num * t1.den

\* C6: for an EXACT_INPUT trade minimumAmountOut(t) is
\* truncate(outputAmount / (1 + t)) and does not increase when t grows from
\* t1 >= 0 to t2 >= t1; for t < 0 it fails with SLIPPAGE_TOLERANCE and returns
\* no amount, whatever the trade type.
C6_MinimumAmountOut ==
    Quoted =>
        /\ \A e \in LogOf("minimumAmountOut") :
              /\ Negative(e.tolerance) =>
                    ~e.result.ok /\ e.result.error = "SLIPPAGE_TOLERANCE"
              /\ (~Negative(e.tolerance) /\ calls.trade.tradeType = "EXACT_INPUT") =>
                    /\ e.result.ok
                    /\ e.result.raw = (calls.trade.outputAmount * e.tolerance.den)
                                          \div (e.tolerance.den + e.tolerance.num)
        /\ \A e1, e2 \in LogOf("minimumAmountOut") :
              ( /\ calls.trade.tradeType = "EXACT_INPUT"
                /\ ~Negative(e1.tolerance)
                /\ AtMost(e1.tolerance, e2.tolerance) ) => e2.result.raw <= e1.result.raw

\* two calls on an EXACT_INPUT trade, the larger tolerance giving strictly less
C6_Witness ==
    /\ Quoted
    /\ calls.trade.tradeType = "EXACT_INPUT"
    /\ Len(calls.log) = 2
    /\ calls.log[1].method = "minimumAmountOut" /\ calls.log[2].method = "minimumAmountOut"
    /\ ~Negative(calls.log[1].tolerance)
    /\ AtMost(calls.log[1].tolerance, calls.log[2].tolerance)
    /\ calls.log[2].result.raw < calls.log[1].result.raw
    /\ calls.log[2].result.raw > 0

\* C10: for an EXACT_OUTPUT trade and t >= 0, maximumAmountIn(t) is
\* truncate(inputAmount * (1 + t)), is at least inputAmount, equals it at
\* t = 0, and does not decrease when t grows; for an EXACT_INPUT trade it is
\* inputAmount; for t < 0 it fails.
C10_MaximumAmountIn ==
    Quoted =>
        /\ \A e \in LogOf("maximumAmountIn") :
              /\ Negative(e.tolerance) =>
                    ~e.result.ok /\ e.result.error = "SLIPPAGE_TOLERANCE"
              /\ (~Negative(e.tolerance) /\ calls.trade.tradeType = "EXACT_INPUT") =>
                    e.result.ok /\ e.result.raw = calls.trade.inputAmount
              /\ (~Negative(e.tolerance) /\ calls.trade.tradeType = "EXACT_OUTPUT") =>
                    /\ e.result.ok
                    /\ e.result.raw = (calls.trade.inputAmount * (e.tolerance.den + e.tolerance.num))
                                          \div e.tolerance.den
                    /\ e.result.raw >= calls.trade.inputAmount
                    /\ e.tolerance.num = 0 => e.result.raw = calls.trade.inputAmount
        /\ \A e1, e2 \in LogOf("maximumAmountIn") :
              ( /\ calls.trade.tradeType = "EXACT_OUTPUT"
                /\ ~Negative(e1.tolerance)
                /\ AtMost(e1.tolerance, e2.tolerance) ) => e1.result.raw <= e2.result.raw

\* two calls on an EXACT_OUTPUT trade: tolerance 0 gives the input itself, a
\* larger tolerance strictly more
C10_Witness ==
    /\ Quoted
    /\ calls.trade.tradeType = "EXACT_OUTPUT"
    /\ Len(calls.log) = 2
    /\ calls.log[1].method = "maximumAmountIn" /\ calls.log[2].method = "maximumAmountIn"
    /\ calls.log[1].tolerance.num = 0
    /\ calls.log[1].result.raw = calls.trade.inputAmount
    /\ calls.log[2].result.raw > calls.log[1].result.raw

---------------------------------------------------------------------------
\* Properties of the search

TradeType == IF fn = "exactIn" THEN "EXACT_INPUT" ELSE "EXACT_OUTPUT"

Distinct(s) == Cardinality(Range(s)) = Len(s)

\* every sequence of 1..maxHops distinct entries of the caller's list
CandidateRoutes ==
    {s \in UNION {[1..n -> 1..Len(pairs)] : n \in 1..maxHops} : Distinct(s)}

Chained(s) == RouteValid(s, TokenIn) /\ Last(RoutePath(s, TokenIn)) = TokenOut

\* V: the trades over the candidate routes chained from the input asset to the
\* target asset on which every hop's swap succeeds
Viable ==
    {t \in {NewTrade(c, TokenIn, amount, TradeType) : c \in {r \in CandidateRoutes : Chained(r)}} :
        t.ok}

\* the asset at which the search stops: the target when walking forward from
\* the input, the input when walking backward from the target
StopAsset == IF fn = "exactIn" THEN TokenOut ELSE TokenIn

\* the route meets the stop asset only at its far end
StopsOnce(t) == \A k \in 2..(Len(t.path) - 1) : t.path[k] # StopAsset

ViableStoppingOnce == {t \in Viable : StopsOnce(t)}

\* t strictly precedes all but fewer than maxNumResults of the others in V
AmongTheBest(V, t) ==
    Cardinality({u \in V \ {t} : tradeComparator(t, u) >= 0}) < maxNumResults

Returned_ == status = "returned"

\* C1: the accumulator never holds more than maxNumResults trades, during the
\* search (after every sortedInsert) and in the list returned.
C1_AtMostMaxNumResults ==
    status \in {"running", "returned"} => Len(bestTrades) <= maxNumResults

\* the search is over, the list is full, and more trades were found than fit
C1_Witness ==
    /\ Returned_
    /\ Len(bestTrades) = maxNumResults
    /\ Cardinality(ViableStoppingOnce) > maxNumResults

\* C2 as stated: every trade of V that strictly precedes all but fewer than
\* maxNumResults of the other trades of V is in the returned list.
C2_AllViablePaths ==
    Returned_ =>
        LET V == Viable
        IN \A t \in V : AmongTheBest(V, t) => t \in Range(bestTrades)

\* C2, amended: the same with V restricted to the routes on which no hop but
\* the last yields the target asset (bestTradeExactIn), resp. no hop but the
\* first takes the input asset (bestTradeExactOut).
C2_PathsStoppingOnce ==
    Returned_ =>
        LET V == ViableStoppingOnce
        IN \A t \in V : AmongTheBest(V, t) => t \in Range(bestTrades)

\* more viable routes than fit; a multi-hop one among the best is returned
C2_Witness ==
    /\ Returned_
    /\ Cardinality(ViableStoppingOnce) > maxNumResults
    /\ \E t \in ViableStoppingOnce :
          /\ Len(t.route) > 1
          /\ AmongTheBest(ViableStoppingOnce, t)
          /\ t \in Range(bestTrades)

TopSwap ==
    IF fn = "exactIn" THEN getOutputAmount(TopPair, Top.amount)
    ELSE getInputAmount(TopPair, Top.amount)

LiquidityFailures == {"InsufficientReserves", "InsufficientInputAmount"}

\* the swap attempted on the current candidate fails for lack of liquidity
SwapFailsHere ==
    /\ InLoop
    /\ ~Irrelevant(TopPair, Top.amount.token) /\ ~Drained(TopPair)
    /\ TopSwap.err \in LiquidityFailures

\* C3: a liquidity failure of the swap on a candidate pair never aborts the
\* search: the candidate is skipped, the loop at this level and the enclosing
\* invocations go on unchanged, the trades accumulated are kept, and the
\* top-level call runs its loop to the end and returns.
C3_LiquidityFailureSkips ==
    /\ [](status # "thrown")
    /\ [](Returned_ => Len(stack) = 1 /\ stack[1].i = Len(pairs) + 1)
    /\ [][SwapFailsHere =>
            /\ status' = "running"
            /\ bestTrades' = bestTrades
            /\ stack' = Continue]_vars

\* index in the caller's list of the pair a route uses at the top level
TopLevelPair(t) == IF fn = "exactIn" THEN Head(t.route) ELSE Last(t.route)

\* the call returned trades found before and after a top-level candidate on
\* which the swap failed
C3_Witness ==
    /\ Returned_
    /\ \E k \in 1..Len(pairs) :
          /\ ~Irrelevant(pairs[k], stack[1].amount.token) /\ ~Drained(pairs[k])
          /\ (IF fn = "exactIn" THEN getOutputAmount(pairs[k], stack[1].amount)
              ELSE getInputAmount(pairs[k], stack[1].amount)).err \in LiquidityFailures
          /\ \E t \in Range(bestTrades) : TopLevelPair(t) < k
          /\ \E t \in Range(bestTrades) : TopLevelPair(t) > k

RECURSIVE ReachedWithin(_)
ReachedWithin(h) ==
    IF h = 0 THEN {TokenIn}
    ELSE LET R == ReachedWithin(h - 1)
         IN R \cup {OtherToken(pairs[k], pairs[k].token0) : k \in {j \in 1..Len(pairs) : pairs[j].token0 \in R}}
              \cup {OtherToken(pairs[k], pairs[k].token1) : k \in {j \in 1..Len(pairs) : pairs[j].token1 \in R}}

\* C7: every trade in the list has between 1 and maxHops pairs, and the list
\* returned is empty when no chain of at most maxHops pairs joins the input
\* asset to the target asset.
C7_HopBudget ==
    /\ \A k \in 1..Len(bestTrades) :
          Len(bestTrades[k].route) >= 1 /\ Len(bestTrades[k].route) <= maxHops
    /\ (Returned_ /\ TokenOut \notin ReachedWithin(maxHops)) => bestTrades = <<>>

\* nothing is returned although a longer chain of funded pairs exists
C7_Witness ==
    /\ Returned_
    /\ bestTrades = <<>>
    /\ TokenOut \notin ReachedWithin(maxHops)
    /\ TokenOut \in ReachedWithin(maxHops + 1)
    /\ \A k \in 1..Len(pairs) : ~Drained(pairs[k])

\* C8: the list is ranked at all times: for i < j the trade at i has more
\* output than the one at j, or the same output and less input, or the same
\* amounts and lower price impact, or all these equal and no more hops.
C8_Ranked ==
    \A i, j \in 1..Len(bestTrades) :
        i < j => DocumentedOrder(bestTrades[i], bestTrades[j]) <= 0

\* a trade found later (through a later top-level pair) stands first,
\* strictly before one found earlier
C8_Witness ==
    /\ Len(bestTrades) >= 2
    /\ DocumentedOrder(bestTrades[1], bestTrades[2]) < 0
    /\ \/ bestTrades[1].outputAmount > bestTrades[2].outputAmount
       \/ bestTrades[1].inputAmount < bestTrades[2].inputAmount
    /\ TopLevelPair(bestTrades[1]) > TopLevelPair(bestTrades[2])

\* ps without its i-th element
Without(ps, i) == [k \in 1..(Len(ps) - 1) |-> IF k < i THEN ps[k] ELSE ps[k + 1]]

\* C9: each invocation's candidates are its caller's candidates without the
\* pair just traversed, the others kept in order; the accumulated path and
\* the candidates are disjoint; no route in the list uses an entry of the
\* caller's list twice; and the caller's list is as it was supplied.
C9_NoPairReuse ==
    status \in {"running", "returned"} =>
        /\ stack[1].pairs = [k \in 1..Len(pairs) |-> k]
        /\ \A d \in 1..Len(stack) :
              /\ Range(stack[d].pairs) \cap Range(stack[d].currentPairs) = {}
              /\ Distinct(stack[d].currentPairs)
              /\ d > 1 => stack[d].pairs = Without(stack[d - 1].pairs, stack[d - 1].i)
        /\ \A k \in 1..Len(bestTrades) : Distinct(bestTrades[k].route)

\* two nested invocations, each with one pair fewer, below a top-level call
\* that already holds a trade
C9_Witness ==
    /\ status = "running"
    /\ Len(stack) = 3
    /\ Len(stack[3].pairs) = Len(pairs) - 2
    /\ stack[2].i > 1
    /\ bestTrades # <<>>

====
